---- MODULE Spec2Model ----
(***************************************************************************)
(* A model of the backend layer of nyuctf_multiagent: the argument         *)
(* validator Backend.parse_tool_arguments (backends/backend.py) and the    *)
(* send operation of the six vendor adapters (backends/*_backend.py).      *)
(*                                                                         *)
(* Python values are modelled by what the code can observe of them:        *)
(*   - an optional value is a sequence of length 0 (None) or 1;            *)
(*   - a JSON parameter value is a record [t, n]: t its Python type and n  *)
(*     a payload (numbers in hundredths, so 3.14 is 314);                  *)
(*   - a JSON document is a record [t, n, m]: m the mapping when t="obj".  *)
(***************************************************************************)
EXTENDS Integers, Sequences, FiniteSets, TLC

None == <<>>
Some(x) == <<x>>

(***************************************************************************)
(* Bounds of the model.                                                    *)
(***************************************************************************)
\* how many times parse_tool_arguments is applied to one ToolCall
MaxParse == 3

(***************************************************************************)
(* JSON values                                                             *)
(***************************************************************************)
Val(t, n) == [t |-> t, n |-> n]
NoValue == Val("none", 0)

\* the parameter values a model can send: "ls", "not-a-number", "3.14", 5,
\* null, a list, true
StrLs == Val("str", 1)
StrNaN == Val("str", 2)
Str314 == Val("numstr", 314)
Num5 == Val("num", 500)
Null == Val("null", 0)
List1 == Val("list", 1)
BoolT == Val("bool", 1)
Values == {StrLs, StrNaN, Str314, Num5, Null, List1, BoolT}

\* parameter names a model can send; "extra" is declared by no tool
Keys == {"command", "timeout", "extra"}

EmptyMap == [k \in {} |-> NoValue]
Doc(t, n, m) == [t |-> t, n |-> n, m |-> m]
\* Python None (also what json.loads("null") returns)
NoneDoc == Doc("null", 0, EmptyMap)
\* a string that is not JSON
InvalidDoc == Doc("invalid", 0, EmptyMap)
ObjDoc(m) == Doc("obj", 0, m)
Mappings == UNION {[S -> Values] : S \in SUBSET Keys}
ObjDocs == {ObjDoc(m) : m \in Mappings}
\* JSON texts that decode to something that is not an object: null, [], [1], 0, 7
NonObjDocs == {NoneDoc, Doc("list", 0, EmptyMap), Doc("list", 1, EmptyMap),
               Doc("num", 0, EmptyMap), Doc("num", 700, EmptyMap)}

\* ToolCall.arguments: a str (isStr, doc is what the text denotes) or a dict
StrArgs == {[isStr |-> TRUE, doc |-> d] : d \in ObjDocs \cup NonObjDocs \cup {InvalidDoc}}
MapArgs == {[isStr |-> FALSE, doc |-> d] : d \in ObjDocs}

\* bool(x) of a decoded document
Truthy(d) ==
  CASE d.t = "obj" -> DOMAIN d.m # {}
    [] d.t = "list" -> d.n > 0
    [] d.t = "num" -> d.n # 0
    [] d.t = "str" -> d.n # 0
    [] OTHER -> FALSE

\* float(x): the value or the exception Python raises
FloatOf(v) ==
  CASE v.t = "num" -> [exc |-> "none", v |-> v]
    [] v.t = "numstr" -> [exc |-> "none", v |-> Val("num", v.n)]
    [] v.t = "bool" -> [exc |-> "none", v |-> Val("num", v.n * 100)]
    [] v.t = "str" -> [exc |-> "ValueError", v |-> v]
    [] OTHER -> [exc |-> "TypeError", v |-> v]

(***************************************************************************)
(* Tool registry (self.tools): name -> PARAMETERS (in declaration order),  *)
(* the type tag of each, REQUIRED_PARAMETERS.                              *)
(***************************************************************************)
Tool(params, types, required) ==
  [PARAMETERS |-> params, TYPES |-> types, REQUIRED_PARAMETERS |-> required]

ListCommandsTool == Tool(<<>>, EmptyMap, {})
LookupCommandTool == Tool(<<"command">>, [p \in {"command"} |-> "string"], {"command"})
RunCommandTool ==
  Tool(<<"command", "timeout">>,
       [p \in {"command", "timeout"} |-> IF p = "timeout" THEN "number" ELSE "string"],
       {"command"})

tools ==
  [nm \in {"list_commands", "lookup_command", "run_command"} |->
     CASE nm = "list_commands" -> ListCommandsTool
       [] nm = "lookup_command" -> LookupCommandTool
       [] OTHER -> RunCommandTool]

Range(s) == {s[i] : i \in DOMAIN s}

ToolNames == DOMAIN tools \cup {"bogus_tool"}
CallIds == {"call_a", "call_b"}

(***************************************************************************)
(* ToolCall and ToolResult                                                 *)
(***************************************************************************)
\* ToolCall(name=, id=, arguments=, thought_signature=): parsed_arguments
\* starts unset
ToolCall(name, id, arguments, thought_signature) ==
  [name |-> name, id |-> id, arguments |-> arguments, parsed_arguments |-> NoneDoc,
   thought_signature |-> thought_signature]

\* an error text that leaves out the exception class
Msg_NoClass(kind, tool, names, exc, quoted) ==
  [kind |-> kind, tool |-> tool, names |-> names, exc |-> "", quoted |-> quoted]

\* the text of an error: which message it is, the tool name it prints, the
\* names it lists, the exception class it prints and the value the
\* exception's own text quotes
Msg(kind, tool, names, exc, quoted) ==
  [kind |-> kind, tool |-> tool, names |-> names, exc |-> exc, quoted |-> quoted]
NoMsg == Msg("none", "", {}, "", NoValue)

\* ToolResult.error_for_call(tool_call, msg)
ErrorForCall(tc, msg) == [id |-> tc.id, error |-> msg]
NoResult == [id |-> "", error |-> NoMsg]

\* what one call of parse_tool_arguments does: status "ok" is (True, tool_call),
\* "error" is (False, tool_res), "raise" an exception leaving the method
Outcome(status, exc, tc, res, decoded) ==
  [status |-> status, exc |-> exc, tool_call |-> tc, res |-> res, decoded |-> decoded]

\* CleanupExtra without the deletion
CleanupExtra_KeepAll(m, tool) == m

\* lines 84-85: del parsed_arguments[extra] for every key outside PARAMETERS
CleanupExtra(m, tool) == [k \in DOMAIN m \cap Range(tool.PARAMETERS) |-> m[k]]

\* lines 87-90: in PARAMETERS order, parsed_arguments[param] = float(...) for
\* each present "number" parameter; stops at the first exception, keeping the
\* assignments already made
RECURSIVE CastParams(_, _, _)
CastParams(tool, i, m) ==
  IF i > Len(tool.PARAMETERS) THEN [exc |-> "none", m |-> m, quoted |-> NoValue]
  ELSE LET param == tool.PARAMETERS[i] IN
       IF param \in DOMAIN m /\ tool.TYPES[param] = "number"
       THEN LET f == FloatOf(m[param]) IN
            IF f.exc # "none" THEN [exc |-> f.exc, m |-> m, quoted |-> m[param]]
            ELSE CastParams(tool, i + 1, [m EXCEPT ![param] = f.v])
       ELSE CastParams(tool, i + 1, m)

\* an in-place change of parsed_arguments: when arguments is a dict,
\* parsed_arguments is that same dict (line 68), so arguments changes too
Mutate(tc, m) ==
  [tc EXCEPT !.parsed_arguments = ObjDoc(m),
             !.arguments = IF tc.arguments.isStr THEN @ ELSE [@ EXCEPT !.doc = ObjDoc(m)]]

\* Backend.parse_tool_arguments
ParseToolArguments(self_tools, tc) ==
  IF Truthy(tc.parsed_arguments) THEN Outcome("ok", "", tc, NoResult, FALSE)
  ELSE IF tc.arguments.isStr /\ tc.arguments.doc = InvalidDoc
  THEN Outcome("error", "", tc,
               ErrorForCall(tc, Msg("decode", tc.name, {}, "JSONDecodeError", NoValue)),
               TRUE)
  ELSE
    LET tc1 == [tc EXCEPT !.parsed_arguments = tc.arguments.doc]
        decoded == tc.arguments.isStr
    IN
    IF tc1.name \notin DOMAIN self_tools
    THEN Outcome("error", "", tc1,
                 ErrorForCall(tc1, Msg("not_found", tc1.name, DOMAIN self_tools, "", NoValue)),
                 decoded)
    ELSE
      LET tool == self_tools[tc1.name] IN
      IF tc1.parsed_arguments.t # "obj"
      THEN Outcome("raise", "AttributeError", tc1, NoResult, decoded)
      ELSE
        LET present == DOMAIN tc1.parsed_arguments.m
            missing == tool.REQUIRED_PARAMETERS \ present
        IN
        IF missing # {}
        THEN Outcome("error", "", tc1,
                     ErrorForCall(tc1, Msg("missing", tc1.name, missing, "", NoValue)),
                     decoded)
        ELSE
          LET tc2 == Mutate(tc1, CleanupExtra(tc1.parsed_arguments.m, tool))
              cast == CastParams(tool, 1, tc2.parsed_arguments.m)
              tc3 == Mutate(tc2, cast.m)
          IN
          CASE cast.exc = "none" -> Outcome("ok", "", tc3, NoResult, decoded)
            [] cast.exc = "ValueError" ->
                 Outcome("error", "", tc3,
                         ErrorForCall(tc3, Msg("type", tc3.name, {}, "", cast.quoted)),
                         decoded)
            [] OTHER -> Outcome("raise", cast.exc, tc3, NoResult, decoded)

(***************************************************************************)
(* Adapters                                                                *)
(***************************************************************************)
OpenAICompatible == {"openai", "together", "ollama", "openrouter"}
GeminiStyle == {"gemini", "vertexai"}
Backends == OpenAICompatible \cup GeminiStyle

\* BackendResponse(content=None, error=None, tool_call=None, cost=0)
BackendResponse(content, error, tool_call, cost) ==
  [content |-> content, error |-> error, tool_call |-> tool_call, cost |-> cost]

\* ErrorResponse with the error text also passed as content
ErrorResponse_WithContent(prefix, exc) ==
  [content |-> Some(prefix), error |-> Some([prefix |-> prefix, exc |-> exc]),
   tool_call |-> None, cost |-> 0]

\* return BackendResponse(error=f"<prefix>: {e}")
ErrorResponse(prefix, exc) ==
  BackendResponse(None, Some([prefix |-> prefix, exc |-> exc]), None, 0)

\* what one call of send does: "returned" a BackendResponse or "raised"
Returned(r) == [status |-> "returned", exc |-> "", r |-> r]
Raised(exc) == [status |-> "raised", exc |-> exc, r |-> BackendResponse(None, None, None, 0)]
NoSend == [status |-> "none", exc |-> "", r |-> BackendResponse(None, None, None, 0)]

\* the exceptions the vendor call can end with: the vendor's bad-request
\* error, its rate-limit error and a transport failure
VendorExceptions == {"BadRequestError", "RateLimitError", "ConnectionError"}

\* the except clauses around _call_model: the prefix of the error returned,
\* or None when the exception matches no clause and leaves send
ExceptClause(backend, exc) ==
  CASE backend \in {"openai", "together"} ->
         IF exc = "BadRequestError" THEN Some("Backend Error") ELSE None
    [] backend = "ollama" ->
         IF exc \in {"BadRequestError", "RateLimitError"}
         THEN Some("Ollama Backend Error") ELSE Some("Ollama Connection Error")
    [] backend = "openrouter" ->
         IF exc \in {"BadRequestError", "RateLimitError"}
         THEN Some("OpenRouter Error") ELSE Some("OpenRouter Connection Error")
    [] backend = "gemini" -> Some("Gemini API Error")
    [] OTHER -> Some("Vertex AI Error")

\* an exception raised inside the try block of send
Except(backend, exc) ==
  LET c == ExceptClause(backend, exc) IN
  IF c = None THEN Raised(exc) ELSE Returned(ErrorResponse(c[1], exc))

(***************************************************************************)
(* Vendor responses.  OpenAI-compatible: usage (None or token counts) and  *)
(* choices, each a message with content and tool_calls.  Gemini: usage     *)
(* metadata (None, or counts that may be None) and candidates, each with   *)
(* a content holding parts.                                                *)
(***************************************************************************)
Usage(p, c) == [prompt_tokens |-> p, completion_tokens |-> c]
Usages == {None, Some(Usage(Some(1000), Some(200)))}
GeminiUsages == Usages \cup {Some(Usage(None, None)), Some(Usage(Some(1000), None))}

\* the function calls a vendor can return: name, id, arguments, signature
VendorCall(name, id, arguments, sig) ==
  [name |-> name, id |-> id, arguments |-> arguments, thought_signature |-> sig]
LsArgs == ObjDoc([k \in {"command"} |-> StrLs])
CallA == VendorCall("run_command", "call_a", LsArgs, Some("sig_a"))
CallB == VendorCall("list_commands", "call_b", ObjDoc(EmptyMap), None)
VendorCalls == {CallA, CallB}

RECURSIVE SeqsUpTo(_, _)
\* the sequences over S of length at most n
SeqsUpTo(S, n) ==
  IF n = 0 THEN {<<>>}
  ELSE LET shorter == SeqsUpTo(S, n - 1) IN
       shorter \cup {Append(q, x) : q \in shorter, x \in S}

\* how many tool calls (or parts) one vendor response carries at most
MaxCalls == 2

ChatMessage(content, tool_calls) == [content |-> content, tool_calls |-> tool_calls]
ChatMessages ==
  {ChatMessage(c, t) : c \in {None, Some("hi")},
                       t \in {None} \cup {Some(q) : q \in SeqsUpTo(VendorCalls, MaxCalls)}}
OpenAIResponses ==
  {[usage |-> u, choices |-> ch] :
     u \in Usages, ch \in {<<>>} \cup {<<m>> : m \in ChatMessages}}

\* a Part: text (None, "" or a string) and function_call (None or a call)
Part(text, fc) == [text |-> text, function_call |-> fc]
Parts == {Part(Some("hi"), None), Part(Some(""), None)}
           \cup {Part(None, Some(c)) : c \in VendorCalls}
Candidates ==
  {[content |-> None], [content |-> Some([parts |-> None])]}
    \cup {[content |-> Some([parts |-> Some(q)])] : q \in SeqsUpTo(Parts, MaxCalls)}
GeminiResponses ==
  {[usage_metadata |-> u, candidates |-> c] :
     u \in GeminiUsages, c \in {None, Some(<<>>)} \cup {Some(<<x>>) : x \in Candidates}}

\* what _call_model ends with: an exception or a response
Threw(exc) == [exc |-> exc, response |-> <<>>]
Replied(resp) == [exc |-> "none", response |-> Some(resp)]
OpenAIOutcomes == {Threw(e) : e \in VendorExceptions} \cup {Replied(r) : r \in OpenAIResponses}
GeminiOutcomes == {Threw(e) : e \in VendorExceptions} \cup {Replied(r) : r \in GeminiResponses}

(***************************************************************************)
(* calculate_cost                                                          *)
(***************************************************************************)
\* x or 0
OrZero(x) == IF x = None THEN 0 ELSE x[1]

\* OpenAIBackend / TogetherBackend: usage is dereferenced unguarded
\* OllamaBackend: always 0;  OpenRouterBackend: 0 when usage is falsy
OpenAICalculateCost(backend, in_p, out_p, resp) ==
  CASE backend = "ollama" -> [exc |-> "none", cost |-> 0]
    [] backend = "openrouter" /\ resp.usage = None -> [exc |-> "none", cost |-> 0]
    [] resp.usage = None -> [exc |-> "AttributeError", cost |-> 0]
    [] OTHER -> [exc |-> "none",
                 cost |-> in_p * resp.usage[1].prompt_tokens[1]
                            + out_p * resp.usage[1].completion_tokens[1]]

\* GeminiBackend / VertexAIBackend
GeminiCalculateCost(in_p, out_p, resp) ==
  IF resp.usage_metadata # None
  THEN in_p * OrZero(resp.usage_metadata[1].prompt_tokens)
         + out_p * OrZero(resp.usage_metadata[1].completion_tokens)
  ELSE 0

(***************************************************************************)
(* Conversation and history formatting                                     *)
(***************************************************************************)
Message(role, content, tool_data) ==
  [role |-> role, content |-> content, tool_data |-> tool_data]

\* ToolResult(name, id, result) carried by an OBSERVATION
ToolResult(name, id, result) == [name |-> name, id |-> id, result |-> result]

\* the ToolCalls an ASSISTANT message can carry: arguments a JSON string, a
\* string that is not JSON (as an OpenAI-compatible vendor may send), a dict
HistoryCalls ==
  {ToolCall("run_command", "call_a", [isStr |-> TRUE, doc |-> LsArgs], None),
   ToolCall("run_command", "call_a", [isStr |-> TRUE, doc |-> InvalidDoc], None),
   ToolCall("run_command", "call_b", [isStr |-> FALSE, doc |-> LsArgs], Some("sig_a"))}

Messages ==
  {Message("system", Some("You are an agent"), None),
   Message("user", Some("List files"), None),
   Message("assistant", None, None),
   Message("assistant", Some(""), None),
   Message("observation", None, Some(ToolResult("run_command", "call_a", "files")))}
    \cup {Message("assistant", None, Some(c)) : c \in HistoryCalls}

\* how many messages a conversation holds at most
MaxMessages == 2
Conversations == SeqsUpTo(Messages, MaxMessages)

\* a key of a native message: absent, or present with a value
Absent == <<>>
Present(x) == <<x>>

\* json.dumps(x): the text that denotes x
JsonDumps(x) == [json |-> x]

\* the loop of OpenAIBackend.send (and Together, Ollama, OpenRouter) over one
\* message; Together adds "name" to a tool message
FormatOpenAI(backend, m) ==
  CASE m.role = "observation" ->
         [role |-> "tool", content |-> Present(Some(JsonDumps(m.tool_data[1].result))),
          tool_call_id |-> Present(m.tool_data[1].id),
          name |-> IF backend = "together" THEN Present(m.tool_data[1].name) ELSE Absent,
          tool_calls |-> Absent]
    [] m.role = "assistant" ->
         [role |-> "assistant",
          content |-> IF m.content # None THEN Present(m.content) ELSE Absent,
          tool_call_id |-> Absent, name |-> Absent,
          tool_calls |-> IF m.tool_data # None
                         THEN Present(<<[id |-> m.tool_data[1].id, type |-> "function",
                                         name |-> m.tool_data[1].name,
                                         arguments |-> m.tool_data[1].arguments]>>)
                         ELSE Absent]
    [] OTHER ->
         [role |-> m.role, content |-> Present(m.content),
          tool_call_id |-> Absent, name |-> Absent, tool_calls |-> Absent]

\* the history formatted last message first
FormatHistoryOpenAI_Reversed(backend, msgs) ==
  [exc |-> "none", system |-> None,
   native |-> [i \in 1..Len(msgs) |-> FormatOpenAI(backend, msgs[Len(msgs) + 1 - i])]]

FormatHistoryOpenAI(backend, msgs) ==
  [exc |-> "none", system |-> None,
   native |-> [i \in 1..Len(msgs) |-> FormatOpenAI(backend, msgs[i])]]

\* x or default, for an optional string: None and "" are falsy
OrText(x, default) == IF x = None \/ x = Some("") THEN default ELSE x[1]

\* the loop emitting the ToolCall's own signature field, set or not
FormatGemini_NoPlaceholder(m) ==
  CASE m.role = "observation" ->
         [role |-> "user", kind |-> "function_response", text |-> "",
          name |-> m.tool_data[1].name, args |-> NoneDoc, thought_signature |-> None,
          response |-> Some(m.tool_data[1].result)]
    [] m.role = "assistant" /\ m.tool_data # None ->
         [role |-> "model", kind |-> "function_call", text |-> "",
          name |-> m.tool_data[1].name, args |-> m.tool_data[1].arguments.doc,
          thought_signature |-> m.tool_data[1].thought_signature,
          response |-> None]
    [] m.role = "assistant" ->
         [role |-> "model", kind |-> "text", text |-> OrText(m.content, "No response"),
          name |-> "", args |-> NoneDoc, thought_signature |-> None, response |-> None]
    [] OTHER ->
         [role |-> "user", kind |-> "text", text |-> OrText(m.content, ""),
          name |-> "", args |-> NoneDoc, thought_signature |-> None, response |-> None]

\* the loop of GeminiBackend.send (and VertexAI) over one non-SYSTEM message
FormatGemini(m) ==
  CASE m.role = "observation" ->
         [role |-> "user", kind |-> "function_response", text |-> "",
          name |-> m.tool_data[1].name, args |-> NoneDoc, thought_signature |-> None,
          response |-> Some(m.tool_data[1].result)]
    [] m.role = "assistant" /\ m.tool_data # None ->
         [role |-> "model", kind |-> "function_call", text |-> "",
          name |-> m.tool_data[1].name, args |-> m.tool_data[1].arguments.doc,
          thought_signature |->
            Some(OrText(m.tool_data[1].thought_signature, "skip_thought_signature_validator")),
          response |-> None]
    [] m.role = "assistant" ->
         [role |-> "model", kind |-> "text", text |-> OrText(m.content, "No response"),
          name |-> "", args |-> NoneDoc, thought_signature |-> None, response |-> None]
    [] OTHER ->
         [role |-> "user", kind |-> "text", text |-> OrText(m.content, ""),
          name |-> "", args |-> NoneDoc, thought_signature |-> None, response |-> None]

\* json.loads(args) of line 93 fails on a string that is not JSON
GeminiFormatRaises(m) ==
  /\ m.role = "assistant" /\ m.tool_data # None
  /\ m.tool_data[1].arguments.isStr
  /\ m.tool_data[1].arguments.doc = InvalidDoc

RECURSIVE FormatHistoryGemini(_)
\* system is the content of the last SYSTEM message; the loop is outside the
\* try blocks, so an exception in it leaves send
FormatHistoryGemini(msgs) ==
  IF msgs = <<>> THEN [exc |-> "none", system |-> None, native |-> <<>>]
  ELSE LET init == FormatHistoryGemini(SubSeq(msgs, 1, Len(msgs) - 1))
           m == msgs[Len(msgs)]
       IN
       IF init.exc # "none" THEN init
       ELSE IF m.role = "system" THEN [init EXCEPT !.system = m.content]
       ELSE IF GeminiFormatRaises(m) THEN [init EXCEPT !.exc = "JSONDecodeError"]
       ELSE [init EXCEPT !.native = Append(@, FormatGemini(m))]

(***************************************************************************)
(* send                                                                    *)
(***************************************************************************)
\* lines 81-86 of openai_backend.py: the first entry of tool_calls, if any
OpenAIToolCall(msg) ==
  IF msg.tool_calls # None /\ Len(msg.tool_calls[1]) > 0
  THEN LET c == msg.tool_calls[1][1] IN
       Some(ToolCall(c.name, c.id, [isStr |-> TRUE, doc |-> c.arguments], None))
  ELSE None

\* OpenAIBackend.send, TogetherBackend.send, OllamaBackend.send,
\* OpenRouterBackend.send after the formatting loop
OpenAISend(backend, in_p, out_p, outcome) ==
  IF outcome.exc # "none" THEN Except(backend, outcome.exc)
  ELSE
    LET resp == outcome.response[1]
        cost == OpenAICalculateCost(backend, in_p, out_p, resp)
    IN
    IF cost.exc # "none" THEN Except(backend, cost.exc)
    ELSE IF resp.choices = <<>> THEN Except(backend, "IndexError")
    ELSE LET msg == resp.choices[1] IN
         Returned(BackendResponse(msg.content, None, OpenAIToolCall(msg), cost.cost))

RECURSIVE GeminiParts(_, _)
\* lines 129-144 of gemini_backend.py: the loop over the parts, each
\* non-empty text and each function_call overwriting the one before
GeminiParts(parts, uuid) ==
  IF parts = <<>> THEN [content |-> None, tool_call |-> None]
  ELSE LET init == GeminiParts(SubSeq(parts, 1, Len(parts) - 1), uuid)
           part == parts[Len(parts)]
           content == IF part.text # None /\ part.text # Some("")
                      THEN part.text ELSE init.content
           tool_call ==
             IF part.function_call # None
             THEN LET fc == part.function_call[1] IN
                  Some(ToolCall(fc.name, uuid, [isStr |-> FALSE, doc |-> fc.arguments],
                                fc.thought_signature))
             ELSE init.tool_call
       IN [content |-> content, tool_call |-> tool_call]

\* GeminiBackend.send, VertexAIBackend.send after the formatting loop
GeminiSend(backend, in_p, out_p, outcome, uuid) ==
  IF outcome.exc # "none" THEN Except(backend, outcome.exc)
  ELSE
    LET resp == outcome.response[1]
        cost == GeminiCalculateCost(in_p, out_p, resp)
    IN
    IF resp.candidates = None \/ resp.candidates = Some(<<>>)
    THEN Returned(BackendResponse(None, None, None, 0))
    ELSE LET cand == resp.candidates[1][1] IN
         IF cand.content = None
         THEN Returned(ErrorResponse("Response parsing error", "AttributeError"))
         ELSE IF cand.content[1].parts = None
         THEN Returned(ErrorResponse("Response parsing error", "TypeError"))
         ELSE LET got == GeminiParts(cand.content[1].parts[1], uuid) IN
              Returned(BackendResponse(got.content, None, got.tool_call, cost))

(***************************************************************************)
(* Tool schemas (get_tool_schema, get_tool_schema_strict)                  *)
(***************************************************************************)
\* {n: {"type": p[0], ...} for n, p in tool.PARAMETERS.items()}: the type of
\* a property is the list of the type tags it admits
Properties(tool) == [n \in Range(tool.PARAMETERS) |-> <<tool.TYPES[n]>>]

\* a builder that lists every parameter as required
GetToolSchema_AllRequired(b, tool) ==
  [properties |-> Properties(tool),
   required |-> Range(tool.PARAMETERS),
   additionalProperties |-> None,
   strict |-> FALSE]

\* get_tool_schema of every adapter: the envelope differs (a dict, or a
\* FunctionDeclaration for Gemini and VertexAI), the parameters do not
GetToolSchema(b, tool) ==
  [properties |-> Properties(tool),
   required |-> tool.REQUIRED_PARAMETERS,
   additionalProperties |-> None,
   strict |-> FALSE]

\* the strict builder listing only REQUIRED_PARAMETERS as required
GetToolSchemaStrict_RequiredOnly(tool) ==
  [properties |-> [n \in Range(tool.PARAMETERS) |->
                     IF n \notin tool.REQUIRED_PARAMETERS
                     THEN <<tool.TYPES[n], "null">> ELSE <<tool.TYPES[n]>>],
   required |-> tool.REQUIRED_PARAMETERS,
   additionalProperties |-> Some(FALSE),
   strict |-> TRUE]

\* TogetherBackend.get_tool_schema_strict: every parameter required, the
\* optional ones nullable
GetToolSchemaStrict(tool) ==
  [properties |-> [n \in Range(tool.PARAMETERS) |->
                     IF n \notin tool.REQUIRED_PARAMETERS
                     THEN <<tool.TYPES[n], "null">> ELSE <<tool.TYPES[n]>>],
   required |-> Range(tool.PARAMETERS),
   additionalProperties |-> Some(FALSE),
   strict |-> TRUE]

(***************************************************************************)
(* Configuration and the model table                                       *)
(***************************************************************************)
\* the sampling parameters a role's configuration can hold
ParamNames == {"temperature", "max_tokens", "top_p", "strict"}
\* a role's configuration: the parameters it holds and the value of strict
Config(present, strict) == [present |-> present, strict |-> strict]
Configs == {Config(ps, st) : ps \in SUBSET ParamNames, st \in BOOLEAN}
FullConfig == Config(ParamNames, FALSE)

\* Backend.get_param: the value, or ValueError for a parameter the role lacks
GetParam(config, param) ==
  IF param \in config.present
  THEN [exc |-> "none", value |-> IF param = "strict" THEN config.strict ELSE TRUE]
  ELSE [exc |-> "ValueError", value |-> FALSE]

\* the parameters _call_model reads, in the order it reads them
CallModelParams(b) ==
  IF b = "openai" THEN <<"temperature", "top_p", "max_tokens">>
  ELSE <<"temperature", "max_tokens">>

\* _call_model raises before the vendor is called when a parameter is missing
CallModelRaises(b, config) ==
  \E i \in DOMAIN CallModelParams(b) : GetParam(config, CallModelParams(b)[i]).exc # "none"

\* models.yaml as load_models_config reads it, in file order: two models of
\* each vendor
ModelsConfig ==
  << [name |-> "gpt-4o", backend |-> "openai"],
     [name |-> "gpt-4o-mini", backend |-> "openai"],
     [name |-> "meta-llama/Llama-3.3-70B", backend |-> "together"],
     [name |-> "Qwen/Qwen2.5-72B", backend |-> "together"],
     [name |-> "gemini-2.5-pro", backend |-> "gemini"],
     [name |-> "gemini-2.5-flash", backend |-> "gemini"],
     [name |-> "vertex-gemini-2.5-pro", backend |-> "vertexai"],
     [name |-> "vertex-gemini-2.5-flash", backend |-> "vertexai"],
     [name |-> "qwen2.5:32b", backend |-> "ollama"],
     [name |-> "qwen2.5:14b", backend |-> "ollama"],
     [name |-> "anthropic/claude-sonnet-4", backend |-> "openrouter"],
     [name |-> "anthropic/claude-3.5-sonnet", backend |-> "openrouter"] >>

\* MODEL_INFO: every key of an entry but 'backend'
MODEL_INFO == [i \in DOMAIN ModelsConfig |-> [name |-> ModelsConfig[i].name]]
ModelNames == {MODEL_INFO[i].name : i \in DOMAIN MODEL_INFO}

\* MODELS: model name -> the backend that serves it
MODELS(name) == ModelsConfig[CHOOSE i \in DOMAIN ModelsConfig : ModelsConfig[i].name = name].backend

\* the MODELS attribute of an adapter class
ClassModels(b) ==
  CASE b = "ollama" -> {"qwen2.5:32b", "qwen2.5:14b"}
    [] b = "openrouter" -> {"anthropic/claude-sonnet-4", "anthropic/claude-3.5-sonnet"}
    [] OTHER -> {}

\* info.get('backend', default)
InfoBackend(info, default) ==
  IF "backend" \in DOMAIN info THEN info.backend ELSE default

\* the names a KeyError lists
MaxListed == 10

\* the models Backend.__init__ calls available for an adapter
Available(b) ==
  LET keep(info) == InfoBackend(info, b) = b \/ info.name \in ClassModels(b)
      kept == SelectSeq(MODEL_INFO, keep)
  IN [i \in DOMAIN kept |-> kept[i].name]

NoAdapter == [status |-> "none", exc |-> "", listed |-> <<>>, more |-> FALSE,
              tool_schemas |-> <<>>]
FailedAdapter(exc, listed, more) ==
  [status |-> "failed", exc |-> exc, listed |-> listed, more |-> more,
   tool_schemas |-> <<>>]

\* the tool schemas an adapter builds for its tools
ToolSchemas(b, config) ==
  IF b = "together" /\ GetParam(config, "strict").value
  THEN [n \in DOMAIN tools |-> GetToolSchemaStrict(tools[n])]
  ELSE [n \in DOMAIN tools |-> GetToolSchema(b, tools[n])]

\* __init__ of an adapter: Backend.__init__, then the client and the schemas
BackendInit(b, model, config) ==
  IF model \notin ModelNames
  THEN LET available == Available(b) IN
       FailedAdapter("KeyError",
                     SubSeq(available, 1, IF Len(available) > MaxListed
                                          THEN MaxListed ELSE Len(available)),
                     Len(available) > MaxListed)
  ELSE IF b = "together" /\ GetParam(config, "strict").exc # "none"
  THEN FailedAdapter("ValueError", <<>>, FALSE)
  ELSE [status |-> "constructed", exc |-> "", listed |-> <<>>, more |-> FALSE,
        tool_schemas |-> ToolSchemas(b, config)]

\* what _call_model does with the vendor's outcomes under a configuration
CallModel(b, config, outcomes) ==
  IF CallModelRaises(b, config) THEN {Threw("ValueError")} ELSE outcomes

(***************************************************************************)
(* The challenge runner (autoRun.py)                                       *)
(***************************************************************************)
\* runner processes started on the same input file
NumProcs == 2
Procs == 1..NumProcs
\* lines of the input file as first written
MaxLines == 2
Names == {"chal_a", "chal_b"}

\* a line of the input file: the challenge name, whether " CLAIMED" follows
\* it, and the position the line had in the file as first written
Line(uid, name, claimed) == [uid |-> uid, name |-> name, claimed |-> claimed]
InputFiles ==
  UNION {{[i \in 1..n |-> Line(i, f[i], FALSE)] : f \in [1..n -> Names]} : n \in 0..MaxLines}

\* 'CLAIMED' in line.strip(); no name of Names contains the marker
Marked(line) == line.claimed

\* the index of the first unclaimed line, 0 when there is none
FirstUnclaimed(ls) ==
  IF \E i \in DOMAIN ls : ~Marked(ls[i])
  THEN CHOOSE i \in DOMAIN ls : ~Marked(ls[i]) /\ \A j \in 1..(i - 1) : Marked(ls[j])
  ELSE 0

\* a removal that keeps no line at all
Remaining_None(ls, name) == <<>>

\* the lines remove_from_input_file keeps: those that are neither the name
\* nor the name followed by " CLAIMED"
Remaining(ls, name) ==
  LET keep(l) == l.name # name IN SelectSeq(ls, keep)

\* the markers append_to_finished looks for, as the output of a run holds
\* them: a solved run, and a run that printed a traceback after solving
Outputs == {{"challenge solved"}, {"traceback", "challenge solved"}}

\* what the last lines of an output can hold of the markers
Markers == {"traceback", "keyerror", "challenge solved"}
AllOutputs == SUBSET Markers

\* a status that looks for the solved marker first
Status_SolvedFirst(out) ==
  IF "challenge solved" \in out THEN "SOLVED"
  ELSE IF "keyerror" \in out THEN "FAILED - KEY_ERROR"
  ELSE IF "traceback" \in out THEN "FAILED - FAILED TO RUN"
  ELSE "NOT_SOLVED"

\* the status append_to_finished writes after the challenge name
Status(out) ==
  IF "traceback" \in out \/ "keyerror" \in out
  THEN IF "keyerror" \in out THEN "FAILED - KEY_ERROR" ELSE "FAILED - FAILED TO RUN"
  ELSE IF "challenge solved" \in out THEN "SOLVED"
  ELSE "NOT_SOLVED"

\* a piece of the finished file: who wrote it, the text of a status line or
\* the end of that line
Piece(by, name, status, end) == [by |-> by, name |-> name, status |-> status, end |-> end]

\* an exclusive lock that any caller gets at once
LockFree_Always(holder) == TRUE

\* fcntl.flock(f, LOCK_EX) returns when no other process holds the lock
LockFree(holder) == holder = 0

(***************************************************************************)
(* The finished-log filter (challengeRunner/filterFinishedChallenges.py)   *)
(***************************************************************************)
\* lines of the finished log
MaxLog == 3
\* challenge names by their characters: "web1" is inside "web10"
Spelling ==
  [n \in {"web1", "web10", "pwn2"} |->
     CASE n = "web1" -> <<"w", "e", "b", "1">>
       [] n = "web10" -> <<"w", "e", "b", "1", "0">>
       [] OTHER -> <<"p", "w", "n", "2">>]
LogNames == DOMAIN Spelling
LogStatuses == {"FAILED - FAILED TO RUN", "EXCEPTION", "SOLVED"}
\* a non-empty line of the log: "<name> - <status>"
LogLine(name, status) == [name |-> name, status |-> status]
LogLines == {LogLine(n, st) : n \in LogNames, st \in LogStatuses}
\* the text of a line, the separator and the status one character each
Text(line) == Spelling[line.name] \o <<" - ", line.status>>

\* a in b, for strings as sequences of characters
IsIn(a, b) == \E i \in 0..(Len(b) - Len(a)) : SubSeq(b, i + 1, i + Len(a)) = a

\* "FAILED TO RUN" in line or "EXCEPTION" in line
HasErrorMarker(line) == line.status \in {"FAILED - FAILED TO RUN", "EXCEPTION"}

\* the inner loop: some line contains the name and lacks the markers
OtherRun(lines, name) ==
  \E i \in DOMAIN lines : IsIn(Spelling[name], Text(lines[i])) /\ ~HasErrorMarker(lines[i])

RECURSIVE ChallengeNames(_, _)
\* challengeNames after the outer loop has passed the first k lines
ChallengeNames(lines, k) ==
  IF k = 0 THEN {}
  ELSE LET before == ChallengeNames(lines, k - 1)
           challengeName == lines[k].name
       IN IF HasErrorMarker(lines[k])
          THEN IF OtherRun(lines, challengeName)
               THEN (before \cup {challengeName}) \ {challengeName}
               ELSE before \cup {challengeName}
          ELSE before

\* parseChallengeLog: what it returns and the names it writes to the output
\* file, None when it returns before opening the file
ParseChallengeLog(lines) ==
  LET challengeNames == ChallengeNames(lines, Len(lines)) IN
  IF challengeNames = {} THEN [returned |-> FALSE, written |-> None]
  ELSE [returned |-> TRUE, written |-> Some(challengeNames)]

(***************************************************************************)
(* The results parser (tatar-project-results/parse_results.py)             *)
(***************************************************************************)
\* a dict in insertion order: a sequence of entries with distinct keys
DictHas(d, k) == \E i \in DOMAIN d : d[i].key = k
DictGet(d, k) == d[CHOOSE i \in DOMAIN d : d[i].key = k].value
\* d[k] = v: a new key goes last, a key already there keeps its place
DictPut(d, k, v) ==
  IF DictHas(d, k)
  THEN [i \in DOMAIN d |-> IF d[i].key = k THEN [key |-> k, value |-> v] ELSE d[i]]
  ELSE Append(d, [key |-> k, value |-> v])
DictKeys(d) == [i \in DOMAIN d |-> d[i].key]

\* result files, log lines or logs per data source
MaxFiles == 2
ResultNames == {"2017f-cry-ecxor", "2018f-msc-leaked_flag"}

\* a jupyter JSON file of a challenge: readable or not, and what it holds
JsonFile(name, readable, success, total_cost) ==
  [name |-> name, readable |-> readable, success |-> success, total_cost |-> total_cost]
JsonFiles ==
  {JsonFile(n, TRUE, su, c) : n \in ResultNames, su \in BOOLEAN, c \in {1, 2}}
    \cup {JsonFile(n, FALSE, FALSE, 0) : n \in ResultNames}

RECURSIVE ReadJupyterJsons(_)
\* read_jupyter_jsons over the files in glob order
ReadJupyterJsons(fs) ==
  IF fs = <<>> THEN <<>>
  ELSE LET result == ReadJupyterJsons(SubSeq(fs, 1, Len(fs) - 1))
           f == fs[Len(fs)]
           info == [success |-> f.success, total_cost |-> f.total_cost]
       IN IF ~f.readable THEN result
          ELSE IF ~DictHas(result, f.name) \/ info.success
          THEN DictPut(result, f.name, info)
          ELSE result

\* a line of finishedChallenges.txt: "<name> - <status> - ... cost: $<cost>"
FinishedLine(name, status, cost) == [name |-> name, status |-> status, cost |-> cost]
FinishedLines ==
  {FinishedLine(n, st, 3) : n \in ResultNames, st \in {"SOLVED", "FAILED", "NOT_SOLVED"}}

RECURSIVE ReadFinishedChallenges(_)
\* read_finished_challenges over the lines of the file
ReadFinishedChallenges(ls) ==
  IF ls = <<>> THEN <<>>
  ELSE LET result == ReadFinishedChallenges(SubSeq(ls, 1, Len(ls) - 1))
           l == ls[Len(ls)]
           success == l.status = "SOLVED"
       IN IF ~DictHas(result, l.name) \/ success
          THEN DictPut(result, l.name, [success |-> success, total_cost |-> l.cost])
          ELSE result

(***************************************************************************)
(* The metrics script (challengeRunner/PythonMetrics.py)                   *)
(***************************************************************************)
\* rCat = rArray[1] of "<event>-<category>-<challenge>-<timestamp>.json"
CategoryOf ==
  [n \in {"2017f-cry-ecxor", "2019q-cry-count_on_me", "2018f-msc-leaked_flag"} |->
     IF n = "2018f-msc-leaked_flag" THEN "msc" ELSE "cry"]
MetricNames == DOMAIN CategoryOf
ExitReasons == {"solved", "error", "max_cost"}
MetricFile(rName, exit_reason) == [rName |-> rName, exit_reason |-> exit_reason]
MetricFiles == {MetricFile(n, e) : n \in MetricNames, e \in ExitReasons}

\* the counters of a category: entries [2], solved [3], failed [4], unsolved [10]
NewCategory == [entries |-> 0, solved |-> 0, failed |-> 0, unsolved |-> 0]
\* the module's globals before the loop
MetricsStart ==
  [nameDictionary |-> <<>>, seenChallenges |-> {}, categoryDictionary |-> <<>>,
   failedChallengeList |-> <<>>,
   regCount |-> 0, failedCount |-> 0, solvedCount |-> 0, unsolvedCount |-> 0,
   totalCount |-> 0]

\* list.remove(x): the first occurrence goes
RemoveFirst(l, x) ==
  IF \E i \in DOMAIN l : l[i] = x
  THEN LET k == CHOOSE i \in DOMAIN l : l[i] = x /\ \A j \in 1..(i - 1) : l[j] # x
       IN SubSeq(l, 1, k - 1) \o SubSeq(l, k + 1, Len(l))
  ELSE l
\* del d[k]
DictDel(d, k) == SelectSeq(d, LAMBDA e : e.key # k)
Bump(n, by, when) == IF when THEN n + by ELSE n

UndoEntry(m, rCat, stored) ==
  LET c == DictGet(m.categoryDictionary, rCat)
      solved == stored.exit_reason = "solved"
      error == stored.exit_reason = "error"
  IN [m EXCEPT
        !.categoryDictionary =
            DictPut(@, rCat, [entries |-> c.entries - 1,
                              solved |-> Bump(c.solved, -1, solved),
                              failed |-> Bump(c.failed, -1, ~solved),
                              unsolved |-> Bump(c.unsolved, -1, ~solved)]),
        !.solvedCount = Bump(@, -1, solved),
        !.failedCount = Bump(@, -1, error),
        !.unsolvedCount = Bump(@, -1, ~solved),
        !.failedChallengeList = IF error THEN RemoveFirst(@, stored.rName) ELSE @,
        !.regCount = Bump(@, -1, ~error)]

\* the file is a duplicate that the loop skips with "continue"
Skipped(m, f) ==
  /\ DictHas(m.nameDictionary, f.rName)
  /\ \/ f.exit_reason = "error"
     \/ /\ f.exit_reason # "solved"
        /\ DictGet(m.nameDictionary, f.rName).exit_reason # "solved"

\* the duplicate replaces a stored entry that was not solved
Replaces(m, f) ==
  /\ DictHas(m.nameDictionary, f.rName)
  /\ f.exit_reason = "solved"
  /\ DictGet(m.nameDictionary, f.rName).exit_reason # "solved"

\* the counters take the file in
Count(m, f) ==
  LET rCat == CategoryOf[f.rName]
      solved == f.exit_reason = "solved"
      error == f.exit_reason = "error"
      c == IF DictHas(m.categoryDictionary, rCat)
           THEN DictGet(m.categoryDictionary, rCat) ELSE NewCategory
  IN [m EXCEPT
        !.totalCount = Bump(@, 1, f.rName \notin m.seenChallenges),
        !.seenChallenges = @ \cup {f.rName},
        !.solvedCount = Bump(@, 1, solved),
        !.failedCount = Bump(@, 1, error),
        !.unsolvedCount = Bump(@, 1, ~solved),
        !.failedChallengeList = IF error THEN Append(@, f.rName) ELSE @,
        !.nameDictionary = DictPut(@, f.rName, f),
        !.categoryDictionary =
            DictPut(@, rCat, [entries |-> c.entries + 1,
                              solved |-> Bump(c.solved, 1, solved),
                              failed |-> Bump(c.failed, 1, ~solved),
                              unsolved |-> Bump(c.unsolved, 1, ~solved)]),
        !.regCount = Bump(@, 1, ~error)]

\* one iteration of the loop over the directory
ProcessItem(m, f) ==
  IF Skipped(m, f) THEN m
  ELSE IF Replaces(m, f)
  THEN LET undone == UndoEntry(m, CategoryOf[f.rName], DictGet(m.nameDictionary, f.rName))
       IN Count([undone EXCEPT !.nameDictionary = DictDel(@, f.rName)], f)
  ELSE Count(m, f)

RECURSIVE PythonMetrics(_)
\* the loop over directoryPath.iterdir()
PythonMetrics(fs) ==
  IF fs = <<>> THEN MetricsStart
  ELSE ProcessItem(PythonMetrics(SubSeq(fs, 1, Len(fs) - 1)), fs[Len(fs)])

\* a batch_<name>.log: the markers in its tail and the cost of its exit line
BatchLog(name, solved, not_solved, cost) ==
  [name |-> name, solved |-> solved, not_solved |-> not_solved, cost |-> cost]
BatchLogs ==
  {BatchLog(n, so, ns, 4) : n \in ResultNames, so \in BOOLEAN, ns \in BOOLEAN}

RECURSIVE ReadBatchLogs(_)
\* read_batch_logs over the logs in glob order
ReadBatchLogs(ls) ==
  IF ls = <<>> THEN <<>>
  ELSE LET result == ReadBatchLogs(SubSeq(ls, 1, Len(ls) - 1))
           l == ls[Len(ls)]
           success == l.solved
           failed == l.not_solved
       IN IF success \/ failed
          THEN DictPut(result, l.name, [success |-> success, total_cost |-> l.cost])
          ELSE result

\* entries per data source of an experiment
MaxSources == 1
\* sorted(all_challenges): the names in their sorted order
SortedNames == <<"2017f-cry-ecxor", "2018f-msc-leaked_flag", "2019q-cry-count_on_me">>
\* build_master_challenge_list: a sorted list without repetition
MasterLists ==
  {SelectSeq(SortedNames, LAMBDA n : n \in S) : S \in SUBSET MetricNames}

IsInList(l, x) == \E i \in DOMAIN l : l[i] = x
Acc(completed, failed, costs, seen) ==
  [completed |-> completed, failed |-> failed, costs |-> costs, seen |-> seen]

\* a challenge not seen before goes to completed (with its cost) or to failed
Place(a, ch, info) ==
  IF info.success
  THEN Acc(Append(a.completed, ch), a.failed,
           DictPut(a.costs, ch, info.total_cost), a.seen \cup {ch})
  ELSE Acc(a.completed, Append(a.failed, ch), a.costs, a.seen \cup {ch})

\* the loop body of source 1
FromJupyter(a, ch, info) == IF ch \in a.seen THEN a ELSE Place(a, ch, info)

\* a later source that leaves a seen challenge where it is
FromLater_NoUpgrade(a, ch, info) == IF ch \in a.seen THEN a ELSE Place(a, ch, info)

\* the loop body of sources 2 and 3: a seen challenge is upgraded when the
\* source says solved and it is not completed yet
FromLater(a, ch, info) ==
  IF ch \in a.seen
  THEN IF info.success /\ ~IsInList(a.completed, ch)
       THEN Acc(Append(a.completed, ch), RemoveFirst(a.failed, ch),
                DictPut(a.costs, ch, info.total_cost), a.seen)
       ELSE a
  ELSE Place(a, ch, info)

RECURSIVE Source1(_, _)
Source1(a, d) ==
  IF d = <<>> THEN a
  ELSE LET e == d[Len(d)]
       IN FromJupyter(Source1(a, SubSeq(d, 1, Len(d) - 1)), e.key, e.value)

RECURSIVE LaterSource(_, _)
LaterSource(a, d) ==
  IF d = <<>> THEN a
  ELSE LET e == d[Len(d)]
       IN FromLater(LaterSource(a, SubSeq(d, 1, Len(d) - 1)), e.key, e.value)

RECURSIVE Pad(_, _, _, _)
\* master challenges in neither set are appended to failed
Pad(failed, completed_set, failed_set, master) ==
  IF master = <<>> THEN failed
  ELSE LET ch == master[Len(master)]
           before == Pad(failed, completed_set, failed_set, SubSeq(master, 1, Len(master) - 1))
       IN IF ch \notin completed_set /\ ch \notin failed_set
          THEN Append(before, ch)
          ELSE before

Elems(l) == {l[i] : i \in DOMAIN l}

ExtractChallengeData(logs_dir, master_challenges) ==
  LET jupyter_data == ReadJupyterJsons(logs_dir.jupyter)
      fc_data == ReadFinishedChallenges(logs_dir.finished)
      batch_data == ReadBatchLogs(logs_dir.batch)
      a1 == Source1(Acc(<<>>, <<>>, <<>>, {}), jupyter_data)
      a2 == LaterSource(a1, fc_data)
      a3 == LaterSource(a2, batch_data)
  IN [completed |-> a3.completed,
      failed |-> Pad(a3.failed, Elems(a3.completed), Elems(a3.failed), master_challenges),
      costs |-> a3.costs]

(***************************************************************************)
(* State                                                                   *)
(***************************************************************************)
VARIABLES
  \* the validator: the ToolCall, what the last parse_tool_arguments returned,
  \* both before that call, the calls made and the json.loads made
  tool_call, ret, prev_call, prev_ret, n_parse, n_decode,
  \* the tools the adapter was constructed with
  registry,
  \* an adapter: its name and prices, the caller's conversation, the
  \* conversation given to the last send, the request and the vendor's outcome
  \* of the last send, and what that send returned
  backend, in_price, out_price, messages, given, request, vendor, response,
  \* the construction of an adapter: the model and the role's configuration
  \* it is constructed with, and the adapter that results
  model, config, adapter,
  \* the challenge runners: the input file, the file as first written, the
  \* finished file, who holds the lock of each file, and per runner process
  \* its place in main, the lines it read, the challenge it holds and the
  \* output of its run; returned records every claim get_next_challenge
  \* has returned
  input_file, listed, finished_file, flock_input, flock_finished,
  pc, lines, challenge_name, output, returned,
  \* a reporting script: the files it reads, and what it has computed and
  \* written once it has run
  files, report

vvars == <<tool_call, ret, prev_call, prev_ret, n_parse, n_decode, registry>>
svars == <<backend, in_price, out_price, messages, given, request, vendor, response>>
cvars == <<model, config, adapter>>
rvars == <<input_file, listed, finished_file, flock_input, flock_finished,
           pc, lines, challenge_name, output, returned>>
avars == <<files, report>>
vars == <<vvars, svars, cvars, rvars, avars>>

NoRet == [status |-> "none", exc |-> "", res |-> NoResult]
NoRequest == [exc |-> "none", system |-> None, native |-> <<>>]
NoOutcome == Threw("none")

\* no ToolCall under validation
IdleValidate ==
  /\ tool_call = ToolCall("list_commands", "call_a", [isStr |-> FALSE, doc |-> ObjDoc(EmptyMap)], None)
  /\ ret = NoRet
  /\ prev_call = tool_call
  /\ prev_ret = NoRet
  /\ n_parse = 0
  /\ n_decode = 0
  /\ registry = tools

\* no adapter in use
IdleSend ==
  /\ backend = "openai"
  /\ in_price = 0
  /\ out_price = 0
  /\ messages = <<>>
  /\ given = <<>>
  /\ request = NoRequest
  /\ vendor = NoOutcome
  /\ response = NoSend

\* an adapter constructed for the first model of the table under a full
\* configuration
IdleConstruct ==
  /\ model = ModelsConfig[1].name
  /\ config = FullConfig
  /\ adapter = BackendInit(backend, model, config)

\* no script run
IdleScripts ==
  /\ files = <<>>
  /\ report = None

\* no runner started, the files empty
IdleRunner ==
  /\ input_file = <<>>
  /\ listed = <<>>
  /\ finished_file = <<>>
  /\ flock_input = 0
  /\ flock_finished = 0
  /\ pc = [p \in Procs |-> "done"]
  /\ lines = [p \in Procs |-> <<>>]
  /\ challenge_name = [p \in Procs |-> None]
  /\ output = [p \in Procs |-> {}]
  /\ returned = {}

\* a ToolCall as an adapter builds it from a vendor response
InitValidate ==
  /\ tool_call \in {ToolCall(nm, id, a, None) :
                      nm \in ToolNames, id \in CallIds, a \in StrArgs \cup MapArgs}
  /\ ret = NoRet
  /\ prev_call = tool_call
  /\ prev_ret = NoRet
  /\ n_parse = 0
  /\ n_decode = 0
  /\ registry = tools
  /\ IdleSend
  /\ IdleConstruct
  /\ IdleRunner
  /\ IdleScripts

\* the caller passes the ToolCall through parse_tool_arguments
Parse ==
  /\ n_parse < MaxParse
  /\ LET o == ParseToolArguments(registry, tool_call) IN
     /\ tool_call' = o.tool_call
     /\ ret' = [status |-> o.status, exc |-> o.exc, res |-> o.res]
     /\ n_decode' = n_decode + (IF o.decoded THEN 1 ELSE 0)
  /\ prev_call' = tool_call
  /\ prev_ret' = ret
  /\ n_parse' = n_parse + 1
  /\ UNCHANGED <<registry, svars, cvars, rvars, avars>>

NextValidate == Parse

SpecValidate == InitValidate /\ [][NextValidate]_vars

\* the tool classes of ALLTOOLS by name; the names of the classes whose
\* modules are not at hand are their class names in snake case
ALLTOOLS ==
  {"run_command", "submit_flag", "giveup", "create_file", "gen_auto_prompt",
   "delegate", "finish_task", "disassemble", "decompile", "lookup_command",
   "list_commands"}

\* a registry holding the tools named; no ToolCall of the model names a tool
\* outside tools, so the declarations of the others are not read
Registry(names) ==
  [n \in names |-> IF n \in DOMAIN tools THEN tools[n] ELSE Tool(<<>>, <<>>, {})]
Registries == {Registry(names) : names \in SUBSET ALLTOOLS}

\* a ToolCall for an adapter constructed with any set of the tools
InitRegistry ==
  /\ registry \in Registries
  /\ tool_call \in {ToolCall(nm, "call_a", a, None) :
                      nm \in ToolNames,
                      a \in {[isStr |-> TRUE, doc |-> InvalidDoc],
                             [isStr |-> TRUE, doc |-> ObjDoc(EmptyMap)],
                             [isStr |-> FALSE, doc |-> LsArgs]}}
  /\ ret = NoRet
  /\ prev_call = tool_call
  /\ prev_ret = NoRet
  /\ n_parse = 0
  /\ n_decode = 0
  /\ IdleSend
  /\ IdleConstruct
  /\ IdleRunner
  /\ IdleScripts

SpecRegistry == InitRegistry /\ [][NextValidate]_vars

\* prices per token in millionths of a currency unit (2e-6 is 2); the table
\* prices every Ollama model at 0
Prices(b) == IF b = "ollama" THEN {<<0, 0>>} ELSE {<<2, 10>>}

\* an adapter constructed for a model of the table, and a conversation
InitSend ==
  /\ backend \in Backends
  /\ \E pr \in Prices(backend) : in_price = pr[1] /\ out_price = pr[2]
  /\ messages \in Conversations
  /\ given = <<>>
  /\ request = NoRequest
  /\ vendor = NoOutcome
  /\ response = NoSend
  /\ IdleValidate
  /\ IdleConstruct
  /\ IdleRunner
  /\ IdleScripts

\* send(messages) of an OpenAI-compatible adapter; send is one blocking round
\* trip, and what the caller does with the conversation afterwards is its own
SendOpenAI ==
  /\ backend \in OpenAICompatible
  /\ adapter.status = "constructed"
  /\ response = NoSend
  /\ \E outcome \in CallModel(backend, config, OpenAIOutcomes) :
       /\ request' = FormatHistoryOpenAI(backend, messages)
       /\ vendor' = outcome
       /\ response' = OpenAISend(backend, in_price, out_price, outcome)
  /\ given' = messages
  /\ UNCHANGED <<backend, in_price, out_price, messages, vvars, cvars, rvars, avars>>

\* send(messages) of the Gemini or VertexAI adapter; when the formatting loop
\* raises, the vendor is never called
SendGemini ==
  /\ backend \in GeminiStyle
  /\ adapter.status = "constructed"
  /\ response = NoSend
  /\ LET fmt == FormatHistoryGemini(messages) IN
     /\ request' = fmt
     /\ IF fmt.exc # "none"
        THEN /\ vendor' = NoOutcome
             /\ response' = Raised(fmt.exc)
        ELSE \E outcome \in CallModel(backend, config, GeminiOutcomes), uuid \in CallIds :
               /\ vendor' = outcome
               /\ response' = GeminiSend(backend, in_price, out_price, outcome, uuid)
  /\ given' = messages
  /\ UNCHANGED <<backend, in_price, out_price, messages, vvars, cvars, rvars, avars>>

NextSend == SendOpenAI \/ SendGemini

SpecSend == InitSend /\ [][NextSend]_vars

\* the models an adapter is asked to serve: one of its own vendor's, one of
\* another vendor's, and one the table does not hold
ModelChoices == {"gpt-4o", "qwen2.5:32b", "no-such-model"}

\* an adapter about to be constructed for a model under a configuration
InitConstruct ==
  /\ backend \in Backends
  /\ \E pr \in Prices(backend) : in_price = pr[1] /\ out_price = pr[2]
  /\ messages = <<>>
  /\ given = <<>>
  /\ request = NoRequest
  /\ vendor = NoOutcome
  /\ response = NoSend
  /\ model \in ModelChoices
  /\ config \in Configs
  /\ adapter = NoAdapter
  /\ IdleValidate
  /\ IdleRunner
  /\ IdleScripts

\* the adapter class is instantiated
Construct ==
  /\ adapter.status = "none"
  /\ adapter' = BackendInit(backend, model, config)
  /\ UNCHANGED <<model, config, svars, vvars, rvars, avars>>

NextConstruct == Construct \/ SendOpenAI \/ SendGemini

SpecConstruct == InitConstruct /\ [][NextConstruct]_vars

\* the runners started on an input file of challenge names, the finished
\* file created empty
InitRunner ==
  /\ input_file \in InputFiles
  /\ listed = input_file
  /\ finished_file = <<>>
  /\ flock_input = 0
  /\ flock_finished = 0
  /\ pc = [p \in Procs |-> "get_next"]
  /\ lines = [p \in Procs |-> <<>>]
  /\ challenge_name = [p \in Procs |-> None]
  /\ output = [p \in Procs |-> {}]
  /\ returned = {}
  /\ IdleValidate
  /\ IdleSend
  /\ IdleConstruct
  /\ IdleScripts

\* get_next_challenge: open, flock and readlines
GetNextOpen(p) ==
  /\ pc[p] = "get_next"
  /\ LockFree(flock_input)
  /\ flock_input' = p
  /\ lines' = [lines EXCEPT ![p] = input_file]
  /\ pc' = [pc EXCEPT ![p] = "claiming"]
  /\ UNCHANGED <<input_file, listed, finished_file, flock_finished, challenge_name,
                 output, returned, vvars, svars, cvars, avars>>

\* get_next_challenge: open raises; the function prints, returns None and
\* main leaves its loop
GetNextError(p) ==
  /\ pc[p] = "get_next"
  /\ challenge_name' = [challenge_name EXCEPT ![p] = None]
  /\ pc' = [pc EXCEPT ![p] = "done"]
  /\ UNCHANGED <<input_file, listed, finished_file, flock_input, flock_finished, lines,
                 output, returned, vvars, svars, cvars, avars>>

\* get_next_challenge: mark the first unclaimed line of the lines read, write
\* the lines back from offset 0, unlock and return; None ends the loop of main
GetNextClaim(p) ==
  /\ pc[p] = "claiming"
  /\ LET i == FirstUnclaimed(lines[p]) IN
     IF i = 0
     THEN /\ challenge_name' = [challenge_name EXCEPT ![p] = None]
          /\ pc' = [pc EXCEPT ![p] = "done"]
          /\ UNCHANGED <<input_file, returned>>
     ELSE /\ challenge_name' = [challenge_name EXCEPT ![p] = Some(lines[p][i].name)]
          /\ input_file' = [lines[p] EXCEPT ![i].claimed = TRUE]
          /\ returned' = returned \cup
               {[proc |-> p, uid |-> lines[p][i].uid, name |-> lines[p][i].name]}
          /\ pc' = [pc EXCEPT ![p] = "run"]
  /\ flock_input' = 0
  /\ lines' = [lines EXCEPT ![p] = <<>>]
  /\ UNCHANGED <<listed, finished_file, flock_finished, output, vvars, svars, cvars, avars>>

\* run_dcipher_command: the framework runs the challenge and prints
Run(p) ==
  /\ pc[p] = "run"
  /\ \E out \in Outputs : output' = [output EXCEPT ![p] = out]
  /\ pc' = [pc EXCEPT ![p] = "append"]
  /\ UNCHANGED <<input_file, listed, finished_file, flock_input, flock_finished, lines,
                 challenge_name, returned, vvars, svars, cvars, avars>>

\* append_to_finished: open for append and flock
AppendOpen(p) ==
  /\ pc[p] = "append"
  /\ LockFree(flock_finished)
  /\ flock_finished' = p
  /\ pc' = [pc EXCEPT ![p] = "appending"]
  /\ UNCHANGED <<input_file, listed, finished_file, flock_input, lines, challenge_name,
                 output, returned, vvars, svars, cvars, avars>>

\* append_to_finished: write the status line, flush and unlock
AppendWrite(p) ==
  /\ pc[p] = "appending"
  /\ finished_file' = Append(finished_file,
                             [name |-> challenge_name[p][1], status |-> Status(output[p])])
  /\ flock_finished' = 0
  /\ pc' = [pc EXCEPT ![p] = "remove"]
  /\ UNCHANGED <<input_file, listed, flock_input, lines, challenge_name, output, returned,
                 vvars, svars, cvars, avars>>

\* remove_from_input_file: open, flock and readlines
RemoveOpen(p) ==
  /\ pc[p] = "remove"
  /\ LockFree(flock_input)
  /\ flock_input' = p
  /\ lines' = [lines EXCEPT ![p] = input_file]
  /\ pc' = [pc EXCEPT ![p] = "removing"]
  /\ UNCHANGED <<input_file, listed, finished_file, flock_finished, challenge_name,
                 output, returned, vvars, svars, cvars, avars>>

\* remove_from_input_file: open raises; the function prints a warning and
\* main goes on
RemoveError(p) ==
  /\ pc[p] = "remove"
  /\ pc' = [pc EXCEPT ![p] = "get_next"]
  /\ UNCHANGED <<input_file, listed, finished_file, flock_input, flock_finished, lines,
                 challenge_name, output, returned, vvars, svars, cvars, avars>>

\* remove_from_input_file: write the remaining lines, truncate and unlock
RemoveWrite(p) ==
  /\ pc[p] = "removing"
  /\ input_file' = Remaining(lines[p], challenge_name[p][1])
  /\ flock_input' = 0
  /\ lines' = [lines EXCEPT ![p] = <<>>]
  /\ pc' = [pc EXCEPT ![p] = "get_next"]
  /\ UNCHANGED <<listed, finished_file, flock_finished, challenge_name, output, returned,
                 vvars, svars, cvars, avars>>

NextRunner ==
  \E p \in Procs :
    \/ GetNextOpen(p) \/ GetNextError(p) \/ GetNextClaim(p)
    \/ Run(p)
    \/ AppendOpen(p) \/ AppendWrite(p)
    \/ RemoveOpen(p) \/ RemoveError(p) \/ RemoveWrite(p)

SpecRunner == InitRunner /\ [][NextRunner]_vars

\* runners that have each claimed and run a challenge and are about to
\* record it
InitAppend ==
  /\ \E f \in [Procs -> Names] :
       /\ input_file = [p \in Procs |-> Line(p, f[p], TRUE)]
       /\ listed = [p \in Procs |-> Line(p, f[p], FALSE)]
       /\ challenge_name = [p \in Procs |-> Some(f[p])]
       /\ returned = {[proc |-> p, uid |-> p, name |-> f[p]] : p \in Procs}
  /\ output \in [Procs -> AllOutputs]
  /\ finished_file = <<>>
  /\ flock_input = 0
  /\ flock_finished = 0
  /\ pc = [p \in Procs |-> "append"]
  /\ lines = [p \in Procs |-> <<>>]
  /\ IdleValidate
  /\ IdleSend
  /\ IdleConstruct
  /\ IdleScripts

\* append_to_finished: f.write of the status line; a buffered write can
\* reach the file in more than one piece, the text of the line comes first
WriteText(p) ==
  /\ pc[p] = "appending"
  /\ finished_file' = Append(finished_file,
                             Piece(p, challenge_name[p][1], Status(output[p]), FALSE))
  /\ pc' = [pc EXCEPT ![p] = "flushing"]
  /\ UNCHANGED <<input_file, listed, flock_input, flock_finished, lines, challenge_name,
                 output, returned, vvars, svars, cvars, avars>>

\* append_to_finished: f.flush puts the end of the line, then unlock
WriteEnd(p) ==
  /\ pc[p] = "flushing"
  /\ finished_file' = Append(finished_file,
                             Piece(p, challenge_name[p][1], Status(output[p]), TRUE))
  /\ flock_finished' = 0
  /\ pc' = [pc EXCEPT ![p] = "remove"]
  /\ UNCHANGED <<input_file, listed, flock_input, lines, challenge_name, output, returned,
                 vvars, svars, cvars, avars>>

NextAppend == \E p \in Procs : AppendOpen(p) \/ WriteText(p) \/ WriteEnd(p)

SpecAppend == InitAppend /\ [][NextAppend]_vars

\* a runner is stopped while run_dcipher_command runs the challenge it has
\* claimed; runner 1 is one that keeps running
Stop(p) ==
  /\ p # 1
  /\ pc[p] = "run"
  /\ pc' = [pc EXCEPT ![p] = "stopped"]
  /\ UNCHANGED <<input_file, listed, finished_file, flock_input, flock_finished, lines,
                 challenge_name, output, returned, vvars, svars, cvars, avars>>

NextStops == NextRunner \/ \E p \in Procs : Stop(p)

\* a runner that is not stopped takes its next step; a runner waiting in
\* flock gets the lock when it is released again and again
FairRunner ==
  \A p \in Procs :
    /\ WF_vars(GetNextClaim(p) \/ Run(p) \/ AppendWrite(p) \/ RemoveWrite(p))
    /\ SF_vars(GetNextOpen(p) \/ GetNextError(p))
    /\ SF_vars(AppendOpen(p))
    /\ SF_vars(RemoveOpen(p) \/ RemoveError(p))

SpecStops == InitRunner /\ [][NextStops]_vars /\ FairRunner

\* a finished log about to be filtered
InitFilter ==
  /\ files \in SeqsUpTo(LogLines, MaxLog)
  /\ report = None
  /\ IdleValidate
  /\ IdleSend
  /\ IdleConstruct
  /\ IdleRunner

\* parseChallengeLog(inputFile, outputFile)
FilterRun ==
  /\ report = None
  /\ report' = Some(ParseChallengeLog(files))
  /\ UNCHANGED <<files, vvars, svars, cvars, rvars>>

NextFilter == FilterRun

SpecFilter == InitFilter /\ [][NextFilter]_vars

\* an experiment directory with jupyter files and a finished-challenges file
InitReaders ==
  /\ files \in {[jupyter |-> j, finished |-> f] :
                  j \in SeqsUpTo(JsonFiles, MaxFiles),
                  f \in SeqsUpTo(FinishedLines, MaxFiles)}
  /\ report = None
  /\ IdleValidate
  /\ IdleSend
  /\ IdleConstruct
  /\ IdleRunner

\* read_jupyter_jsons(logs_dir) and read_finished_challenges(logs_dir)
ReadersRun ==
  /\ report = None
  /\ report' = Some([jupyter_data |-> ReadJupyterJsons(files.jupyter),
                     fc_data |-> ReadFinishedChallenges(files.finished)])
  /\ UNCHANGED <<files, vvars, svars, cvars, rvars>>

NextReaders == ReadersRun

SpecReaders == InitReaders /\ [][NextReaders]_vars

\* a directory of result files, in iterdir() order
InitMetrics ==
  /\ files \in SeqsUpTo(MetricFiles, MaxFiles)
  /\ report = None
  /\ IdleValidate
  /\ IdleSend
  /\ IdleConstruct
  /\ IdleRunner

\* the script runs over the directory
MetricsRun ==
  /\ report = None
  /\ report' = Some(PythonMetrics(files))
  /\ UNCHANGED <<files, vvars, svars, cvars, rvars>>

NextMetrics == MetricsRun

SpecMetrics == InitMetrics /\ [][NextMetrics]_vars

\* an experiment directory with its three data sources and the master list;
\* the batch logs are files batch_<name>.log, one per name
InitExtract ==
  /\ files \in {[jupyter |-> j, finished |-> f, batch |-> b, master |-> m] :
                  j \in SeqsUpTo({x \in JsonFiles : x.readable /\ x.total_cost = 1}, MaxSources),
                  f \in SeqsUpTo({x \in FinishedLines : x.status # "NOT_SOLVED"}, MaxSources),
                  b \in {x \in SeqsUpTo({y \in BatchLogs : ~(y.solved /\ y.not_solved)}, MaxSources) :
                           \A i, k \in DOMAIN x : x[i].name = x[k].name => i = k},
                  m \in MasterLists}
  /\ report = None
  /\ IdleValidate
  /\ IdleSend
  /\ IdleConstruct
  /\ IdleRunner

\* extract_challenge_data(logs_dir, master_challenges)
ExtractRun ==
  /\ report = None
  /\ report' = Some(ExtractChallengeData(files, files.master))
  /\ UNCHANGED <<files, vvars, svars, cvars, rvars>>

NextExtract == ExtractRun

SpecExtract == InitExtract /\ [][NextExtract]_vars

(***************************************************************************)
(* Claims about parse_tool_arguments                                       *)
(***************************************************************************)
\* the last step applied parse_tool_arguments to a ToolCall not parsed before
FirstParse == n_parse = 1
Parsed == n_parse > 0
KnownTool(tc) == tc.name \in DOMAIN tools
\* the arguments are (or decode to) a JSON object
HasObject(tc) == tc.arguments.doc.t = "obj"
MissingOf(tc) == tools[tc.name].REQUIRED_PARAMETERS \ DOMAIN tc.arguments.doc.m
NumberParams(tc) ==
  {p \in Range(tools[tc.name].PARAMETERS) : tools[tc.name].TYPES[p] = "number"}

\* C2: parse_tool_arguments never raises: every call returns (True, ToolCall)
\* or (False, ToolResult) with the ToolResult carrying the id of the call.
C2_NeverRaises ==
  Parsed => /\ ret.status \in {"ok", "error"}
            /\ ret.status = "error" => ret.res.id = tool_call.id

\* C3: a ToolCall of a known tool that lacks required parameters gets an error
\* naming every missing parameter, and its parsed_arguments stays unset.
C3_MissingLeavesUnset ==
  (FirstParse /\ KnownTool(prev_call) /\ HasObject(prev_call)
     /\ MissingOf(prev_call) # {})
  => /\ ret.status = "error"
     /\ MissingOf(prev_call) \subseteq ret.res.error.names
     /\ tool_call.parsed_arguments = NoneDoc

\* C4: once parse_tool_arguments has succeeded on a ToolCall, another call
\* succeeds with the same parsed_arguments and does not decode again.
C4_IdempotentNoDecode ==
  [][(ret.status = "ok" /\ n_parse' = n_parse + 1)
       => /\ ret'.status = "ok"
          /\ tool_call'.parsed_arguments = tool_call.parsed_arguments
          /\ n_decode' = n_decode]_vars

\* C5: for a known tool and a JSON object string holding all required
\* parameters, a successful validation leaves exactly the decoded keys that
\* the tool declares, with every non-number value unchanged.
C5_ExactKeys ==
  (Parsed /\ ret.status = "ok" /\ tool_call.arguments.isStr
     /\ KnownTool(tool_call) /\ HasObject(tool_call) /\ MissingOf(tool_call) = {})
  => LET raw == tool_call.arguments.doc.m
         out == tool_call.parsed_arguments
         tool == tools[tool_call.name]
     IN /\ out.t = "obj"
        /\ DOMAIN out.m = DOMAIN raw \cap Range(tool.PARAMETERS)
        /\ \A k \in DOMAIN out.m : tool.TYPES[k] # "number" => out.m[k] = raw[k]

\* a validation succeeded on a string that carried an undeclared key, a
\* string parameter and a number parameter
C5_Witness ==
  /\ FirstParse /\ ret.status = "ok" /\ tool_call.arguments.isStr
  /\ tool_call.name = "run_command"
  /\ DOMAIN tool_call.arguments.doc.m = {"command", "timeout", "extra"}
  /\ DOMAIN tool_call.parsed_arguments.m = {"command", "timeout"}

\* C6: a "number" parameter given as a numeric string is replaced by the
\* number; given as a non-numeric string it yields a type error whose message
\* names the parameter.
C6_NumberCoercion ==
  (FirstParse /\ KnownTool(prev_call) /\ HasObject(prev_call)
     /\ MissingOf(prev_call) = {})
  => \A p \in NumberParams(prev_call) \cap DOMAIN prev_call.arguments.doc.m :
       LET v == prev_call.arguments.doc.m[p] IN
       /\ (v.t = "numstr" /\ ret.status = "ok")
            => tool_call.parsed_arguments.m[p] = Val("num", v.n)
       /\ v.t = "str"
            => /\ ret.status = "error"
               /\ ret.res.error.kind = "type"
               /\ p \in ret.res.error.names

(***************************************************************************)
(* Claims about send                                                       *)
(***************************************************************************)
Sent == response.status # "none"
VendorFailed == vendor.exc # "none"
VendorReplied == vendor.response # None
VendorResponse == vendor.response[1]
ReturnedOk == response.status = "returned" /\ response.r.error = None
ReturnedError == response.status = "returned" /\ response.r.error # None

\* the response has no choices (OpenAI-compatible) or no candidates (Gemini)
NoChoice ==
  IF backend \in OpenAICompatible THEN VendorResponse.choices = <<>>
  ELSE VendorResponse.candidates \in {None, Some(<<>>)}
\* the first Gemini candidate has null content or null parts
NullContent ==
  /\ backend \in GeminiStyle /\ ~NoChoice
  /\ \/ VendorResponse.candidates[1][1].content = None
     \/ VendorResponse.candidates[1][1].content[1].parts = None
\* the response has a first choice or candidate with its content
WellFormed == VendorReplied /\ ~NoChoice /\ ~NullContent

HasCall(part) == part.function_call # None
\* the tool invocations of the response, in response order
CallsOf(resp) ==
  IF backend \in OpenAICompatible
  THEN IF resp.choices[1].tool_calls = None THEN <<>> ELSE resp.choices[1].tool_calls[1]
  ELSE LET ps == SelectSeq(resp.candidates[1][1].content[1].parts[1], HasCall)
       IN [i \in 1..Len(ps) |-> ps[i].function_call[1]]

\* the usage metadata of the response
UsageOf(resp) ==
  IF backend \in OpenAICompatible THEN resp.usage ELSE resp.usage_metadata
\* in_price * promptTokens + out_price * completionTokens, 0 without usage
ExpectedCost(resp) ==
  IF UsageOf(resp) = None THEN 0
  ELSE in_price * OrZero(UsageOf(resp)[1].prompt_tokens)
         + out_price * OrZero(UsageOf(resp)[1].completion_tokens)

\* C1: whenever the vendor call fails with any exception, send returns a
\* BackendResponse with error set; it does not raise.
C1_VendorFailureReturnsError ==
  (Sent /\ VendorFailed) => ReturnedError

\* C7: for every successful vendor response send returns the cost
\* in_price * promptTokens + out_price * completionTokens, and cost 0 without
\* an error when the usage metadata is absent or null.
C7_CostFromUsage ==
  (Sent /\ WellFormed) => /\ ReturnedOk
                          /\ response.r.cost = ExpectedCost(VendorResponse)

\* C8: when the vendor response carries several tool invocations, the
\* BackendResponse carries the first of them.
C8_FirstCallKept ==
  (Sent /\ WellFormed /\ Len(CallsOf(VendorResponse)) >= 2 /\ ReturnedOk)
  => LET first == CallsOf(VendorResponse)[1] IN
     /\ response.r.tool_call # None
     /\ response.r.tool_call[1].name = first.name
     /\ response.r.tool_call[1].arguments.doc = first.arguments

\* C9: a BackendResponse with error set has content None, tool_call None and
\* cost 0, and send, returning or raising, leaves the conversation as given.
C9_ErrorResponseBare ==
  /\ ReturnedError => /\ response.r.content = None
                      /\ response.r.tool_call = None
                      /\ response.r.cost = 0
  /\ Sent => messages = given

\* a rate-limited Gemini send over [SYSTEM, USER] returned an error, and a
\* reply that billed tokens but had null content did too
C9_Witness ==
  /\ backend = "gemini" /\ ReturnedError
  /\ messages = <<Message("system", Some("You are an agent"), None),
                  Message("user", Some("List files"), None)>>
  /\ \/ vendor.exc = "RateLimitError"
     \/ VendorReplied /\ NullContent /\ ExpectedCost(VendorResponse) > 0

\* C10: a response without choices or candidates, or whose first candidate
\* has null content or parts, yields content None, tool_call None, cost 0 and
\* no error (stated for responses that carry usage metadata, so that the
\* cost computation of C7 is not what decides it).
C10_EmptyShapeIsNoError ==
  (Sent /\ VendorReplied /\ UsageOf(VendorResponse) # None /\ (NoChoice \/ NullContent))
  => /\ ReturnedOk
     /\ response.r.content = None
     /\ response.r.tool_call = None
     /\ response.r.cost = 0

(***************************************************************************)
(* Construction: schemas, the model table, the configuration               *)
(***************************************************************************)
Constructed == adapter.status = "constructed"
ConstructionFailed == adapter.status = "failed"
Optional(tool) == Range(tool.PARAMETERS) \ tool.REQUIRED_PARAMETERS
StrictMode == backend = "together" /\ GetParam(config, "strict").value

\* C11 as stated: every schema an adapter builds for a tool, the strict
\* builder's included, declares exactly the keys of PARAMETERS as properties
\* and exactly REQUIRED_PARAMETERS as required.
C11_RequiredIsRequiredParameters ==
  Constructed
  => \A n \in DOMAIN tools :
       /\ DOMAIN adapter.tool_schemas[n].properties = Range(tools[n].PARAMETERS)
       /\ adapter.tool_schemas[n].required = tools[n].REQUIRED_PARAMETERS

\* C11 amended: every schema an adapter builds for a tool declares exactly the
\* keys of PARAMETERS as properties; its required list is REQUIRED_PARAMETERS
\* under every builder but Together's strict one, which lists every parameter.
C11_PropertiesAndRequired ==
  Constructed
  => \A n \in DOMAIN tools :
       /\ DOMAIN adapter.tool_schemas[n].properties = Range(tools[n].PARAMETERS)
       /\ adapter.tool_schemas[n].required =
            IF StrictMode THEN Range(tools[n].PARAMETERS)
            ELSE tools[n].REQUIRED_PARAMETERS

\* the VertexAI adapter has built the schema of a tool with an optional
\* parameter
C11_Witness ==
  /\ Constructed /\ backend = "vertexai"
  /\ Optional(tools["run_command"]) # {}
  /\ adapter.tool_schemas["run_command"].required = {"command"}

\* C12: constructing an adapter with a model the table does not hold fails at
\* once with an error that lists at most 10 models, each one served by the
\* adapter's own backend.
C12_UnknownModelListsOwnModels ==
  (adapter.status # "none" /\ model \notin ModelNames)
  => /\ ConstructionFailed
     /\ adapter.exc = "KeyError"
     /\ Len(adapter.listed) <= MaxListed
     /\ \A i \in DOMAIN adapter.listed : MODELS(adapter.listed[i]) = backend

\* the parameters an adapter reads from its role's configuration
UsedParams(b) ==
  Range(CallModelParams(b)) \cup (IF b = "together" THEN {"strict"} ELSE {})
Misconfigured == ~(UsedParams(backend) \subseteq config.present)

\* C13: an adapter whose role lacks a sampling parameter it uses is never
\* constructed, so it issues no send and returns no BackendResponse.
C13_MisconfiguredNotConstructed ==
  Misconfigured => /\ ~Constructed
                   /\ response.status = "none"

(***************************************************************************)
(* The validator's errors                                                  *)
(***************************************************************************)
Undecodable(tc) == tc.arguments.isStr /\ tc.arguments.doc = InvalidDoc

\* C14: a ToolCall whose arguments are a string that is not valid JSON gets
\* (False, ToolResult): the error names the decode exception's class, carries
\* the call's id, and is the decode error also when the tool name is unknown.
C14_DecodeErrorFirst ==
  (Parsed /\ Undecodable(prev_call))
  => /\ ret.status = "error"
     /\ ret.res.error.kind = "decode"
     /\ ret.res.error.exc = "JSONDecodeError"
     /\ ret.res.error.tool = prev_call.name
     /\ ret.res.id = prev_call.id

\* undecodable arguments for a tool the registry does not hold were parsed
\* twice
C14_Witness ==
  /\ n_parse = 2 /\ Undecodable(prev_call)
  /\ prev_call.name = "bogus_tool" /\ prev_call.id = "call_b"
  /\ ret.status = "error"

\* C15: a ToolCall whose arguments decode and whose name the registry does
\* not hold gets an error that lists valid tool names, at most as many as a
\* fixed limit whatever the size of the registry (the limit is taken to be
\* the one the code has for listing model names: the registry of all tools
\* is larger).
C15_NotFoundListIsBounded ==
  (FirstParse /\ ~Undecodable(prev_call) /\ prev_call.name \notin DOMAIN registry)
  => /\ ret.status = "error"
     /\ ret.res.error.kind = "not_found"
     /\ ret.res.error.names \subseteq DOMAIN registry
     /\ Cardinality(ret.res.error.names) <= MaxListed

(***************************************************************************)
(* History formatting                                                      *)
(***************************************************************************)
IsSystem(m) == m.role = "system"
NotSystem(m) == m.role # "system"
NonSystem(msgs) == SelectSeq(msgs, NotSystem)
\* the formatting loop of the last send ran to its end
Formatted == Sent /\ request.exc = "none"
CallMessage(m) == m.role = "assistant" /\ m.tool_data # None
\* the ToolCall carries a signature
Signed(tc) == tc.thought_signature # None /\ tc.thought_signature # Some("")
\* the signature a function_call part must carry for a ToolCall
EmittedSignature(tc) ==
  IF Signed(tc) THEN tc.thought_signature ELSE Some("skip_thought_signature_validator")

\* C16: in the Gemini and VertexAI adapters the ToolCall built from a
\* function-call part holds the part's thought signature, and the part
\* emitted for a ToolCall of the history holds the ToolCall's signature
\* unchanged, or the placeholder when it has none; it is never left out.
C16_ThoughtSignatureRoundTrip ==
  (backend \in GeminiStyle /\ Formatted)
  => /\ \A i \in DOMAIN request.native :
          CallMessage(NonSystem(given)[i])
          => /\ request.native[i].thought_signature # None
             /\ request.native[i].thought_signature =
                  EmittedSignature(NonSystem(given)[i].tool_data[1])
     /\ (ReturnedOk /\ response.r.tool_call # None)
        => LET calls == CallsOf(VendorResponse)
               tc == response.r.tool_call[1]
           IN /\ tc.thought_signature = calls[Len(calls)].thought_signature
              /\ FormatGemini(Message("assistant", None, Some(tc))).thought_signature
                   = IF calls[Len(calls)].thought_signature # None
                     THEN calls[Len(calls)].thought_signature
                     ELSE Some("skip_thought_signature_validator")

\* a VertexAI send whose history held a signed ToolCall and an unsigned one,
\* and whose reply was a signed function call
C16_Witness ==
  /\ backend = "vertexai" /\ Formatted /\ ReturnedOk
  /\ Len(given) = 2
  /\ CallMessage(given[1]) /\ Signed(given[1].tool_data[1])
  /\ CallMessage(given[2]) /\ ~Signed(given[2].tool_data[1])
  /\ response.r.tool_call # None
  /\ response.r.tool_call[1].thought_signature = Some("sig_a")

\* the native message stands for the Message, per adapter family
NativeOf(m, n) ==
  IF backend \in OpenAICompatible
  THEN CASE m.role = "observation" ->
              n.role = "tool" /\ n.tool_call_id = Present(m.tool_data[1].id)
         [] m.role = "assistant" ->
              /\ n.role = "assistant"
              /\ (m.tool_data # None) = (n.tool_calls # Absent)
              /\ m.tool_data # None =>
                   /\ n.tool_calls[1][1].id = m.tool_data[1].id
                   /\ n.tool_calls[1][1].arguments = m.tool_data[1].arguments
         [] OTHER -> n.role = m.role /\ n.content = Present(m.content)
  ELSE CASE m.role = "observation" ->
              /\ n.role = "user" /\ n.kind = "function_response"
              /\ n.name = m.tool_data[1].name
         [] CallMessage(m) ->
              /\ n.role = "model" /\ n.kind = "function_call"
              /\ n.name = m.tool_data[1].name
              /\ n.args = m.tool_data[1].arguments.doc
         [] m.role = "assistant" -> n.role = "model" /\ n.kind = "text"
         [] OTHER -> n.role = "user" /\ n.kind = "text" /\ n.text = m.content[1]

EmptyAssistant(m) ==
  m.role = "assistant" /\ m.tool_data = None /\ m.content \in {None, Some("")}

\* C18: every adapter emits an ASSISTANT message that has no tool data and
\* no content (None or "") as a text turn whose text is "No response".
C18_EmptyAssistantPlaceholder ==
  Formatted
  => LET kept == IF backend \in GeminiStyle THEN NonSystem(given) ELSE given IN
     \A i \in DOMAIN kept :
       EmptyAssistant(kept[i])
       => IF backend \in GeminiStyle
          THEN request.native[i].kind = "text" /\ request.native[i].text = "No response"
          ELSE request.native[i].content = Present(Some("No response"))

\* C19: the Together adapter builds every tool's schema with the strict
\* builder exactly when the role's "strict" parameter is truthy, and a strict
\* schema has additionalProperties false, lists every parameter as required,
\* and gives a property a type admitting null exactly when the parameter is
\* not in REQUIRED_PARAMETERS.
C19_StrictSchemas ==
  (Constructed /\ backend = "together")
  => \A n \in DOMAIN tools :
       LET schema == adapter.tool_schemas[n] IN
       /\ schema.strict = GetParam(config, "strict").value
       /\ schema.strict
          => /\ schema.additionalProperties = Some(FALSE)
             /\ schema.required = Range(tools[n].PARAMETERS)
             /\ \A q \in DOMAIN schema.properties :
                  ("null" \in Range(schema.properties[q]))
                    <=> (q \notin tools[n].REQUIRED_PARAMETERS)

\* a Together adapter constructed in strict mode, with the optional timeout
\* of run_command nullable and its command not
C19_Witness ==
  /\ Constructed /\ backend = "together" /\ config.strict
  /\ adapter.tool_schemas["run_command"].strict
  /\ adapter.tool_schemas["run_command"].properties["timeout"] = <<"number", "null">>
  /\ adapter.tool_schemas["run_command"].properties["command"] = <<"string">>

(***************************************************************************)
(* The runners                                                             *)
(***************************************************************************)
DistinctNames(ls) == \A i, j \in DOMAIN ls : ls[i].name = ls[j].name => i = j

\* C20: whatever the interleaving of the runners' get_next_challenge and
\* remove_from_input_file calls, no line of the input file is claimed twice,
\* and when the names in the file are distinct no challenge is returned to
\* two processes.
C20_AtomicClaim ==
  /\ \A c1, c2 \in returned : c1.uid = c2.uid => c1 = c2
  /\ DistinctNames(listed)
     => \A c1, c2 \in returned : c1.name = c2.name => c1.proc = c2.proc

\* two runners have each been returned a challenge of a file of distinct
\* names, one has removed its line and the other is inside get_next_challenge
\* again
C20_Witness ==
  /\ DistinctNames(listed) /\ Len(listed) = 2
  /\ \E c1, c2 \in returned : c1.proc # c2.proc
  /\ Len(input_file) < Len(listed)
  /\ \E q \in Procs : pc[q] = "claiming"

InInput(name) == \E i \in DOMAIN input_file : input_file[i].name = name
InFinished(name) == \E i \in DOMAIN finished_file : finished_file[i].name = name

\* C21: every challenge name the input file first listed is, after every
\* step of every runner, in the input file (claimed or not) or on a line of
\* the finished file, and a line leaves the input file only when the finished
\* file already holds a line of its challenge.
C21_NoChallengeLost ==
  [][/\ \A i \in DOMAIN listed :
          \/ \E j \in DOMAIN input_file' : input_file'[j].name = listed[i].name
          \/ \E j \in DOMAIN finished_file' : finished_file'[j].name = listed[i].name
     /\ \A i \in DOMAIN input_file :
          (\A j \in DOMAIN input_file' : input_file'[j].uid # input_file[i].uid)
          => InFinished(input_file[i].name)]_vars

\* one challenge of two has its finished line and has left the input file,
\* the other is still listed there
C21_Witness ==
  /\ DistinctNames(listed) /\ Len(listed) = 2
  /\ Len(input_file) = 1 /\ Len(finished_file) = 1
  /\ finished_file[1].name # input_file[1].name

(***************************************************************************)
(* The reporting scripts                                                   *)
(***************************************************************************)
Ran == report # None
\* the names parseChallengeLog wrote to the output file
Written == IF report[1].written = None THEN {} ELSE report[1].written[1]
LinesOf(name) == {i \in DOMAIN files : files[i].name = name}

\* C22: parseChallengeLog writes exactly the names of the challenges that
\* have a line with "FAILED TO RUN" or "EXCEPTION" and no line of their own
\* without them; a line of another challenge never keeps a name out.
C22_ExactlyTheFailed ==
  Ran => Written = {n \in LogNames :
                      /\ LinesOf(n) # {}
                      /\ \A i \in LinesOf(n) : HasErrorMarker(files[i])}

\* the readable jupyter files of a challenge, by position
ReadableOf(name) ==
  {i \in DOMAIN files.jupyter : files.jupyter[i].name = name /\ files.jupyter[i].readable}
Last(S) == CHOOSE i \in S : \A j \in S : j <= i

\* C23: of several result files of one challenge read_jupyter_jsons retains
\* a successful one if there is one and the last file processed otherwise,
\* and read_finished_challenges retains SOLVED for a challenge that has a
\* SOLVED line.
C23_DuplicatePolicy ==
  Ran
  => /\ \A n \in ResultNames :
          ReadableOf(n) # {}
          => /\ DictHas(report[1].jupyter_data, n)
             /\ LET kept == DictGet(report[1].jupyter_data, n)
                    last == files.jupyter[Last(ReadableOf(n))]
                IN IF \E i \in ReadableOf(n) : files.jupyter[i].success
                   THEN kept.success
                   ELSE kept = [success |-> last.success, total_cost |-> last.total_cost]
     /\ \A n \in ResultNames :
          (\E i \in DOMAIN files.finished : files.finished[i].name = n)
          => /\ DictHas(report[1].fc_data, n)
             /\ DictGet(report[1].fc_data, n).success
                  = (\E i \in DOMAIN files.finished :
                       files.finished[i].name = n /\ files.finished[i].status = "SOLVED")

\* the files of a challenge, by position, and the distinct challenges
MetricFilesOf(name) == {i \in DOMAIN files : files[i].rName = name}
Distinct == {n \in MetricNames : MetricFilesOf(n) # {}}
First(S) == CHOOSE i \in S : \A j \in S : i <= j
\* the entry the deduplication is to retain for a challenge
Retained(name) ==
  LET solved == {i \in MetricFilesOf(name) : files[i].exit_reason = "solved"}
  IN IF solved # {} THEN files[First(solved)] ELSE files[First(MetricFilesOf(name))]

\* C24: after any sequence of result files every distinct challenge name
\* contributes exactly one retained entry to the counters (solved if any of
\* its files is solved, otherwise its first file): solvedCount +
\* unsolvedCount = totalCount = the number of distinct names, and each
\* category's entry count is its number of distinct challenges.
C24_OneEntryPerChallenge ==
  Ran
  => LET m == report[1]
     IN /\ m.totalCount = Cardinality(Distinct)
        /\ m.solvedCount + m.unsolvedCount = m.totalCount
        /\ m.solvedCount
             = Cardinality({n \in Distinct : Retained(n).exit_reason = "solved"})
        /\ \A n \in Distinct :
             /\ DictHas(m.nameDictionary, n)
             /\ DictGet(m.nameDictionary, n).exit_reason = Retained(n).exit_reason
        /\ \A c \in {"cry", "msc"} :
             IF \E n \in Distinct : CategoryOf[n] = c
             THEN /\ DictHas(m.categoryDictionary, c)
                  /\ DictGet(m.categoryDictionary, c).entries
                       = Cardinality({n \in Distinct : CategoryOf[n] = c})
             ELSE ~DictHas(m.categoryDictionary, c)

\* the challenges that a data source reports solved
ReportedSolved ==
  {files.jupyter[i].name : i \in {k \in DOMAIN files.jupyter :
                                    files.jupyter[k].readable /\ files.jupyter[k].success}}
    \cup {files.finished[i].name : i \in {k \in DOMAIN files.finished :
                                            files.finished[k].status = "SOLVED"}}
    \cup {files.batch[i].name : i \in {k \in DOMAIN files.batch : files.batch[k].solved}}
NoRepeat(l) == \A i, k \in DOMAIN l : l[i] = l[k] => i = k

\* C25: for any contents of the three data sources extract_challenge_data
\* returns lists where no challenge is in both completed and failed, none
\* appears twice in either list, every master challenge is in one of them,
\* a challenge is completed iff some source reports it solved, and costs
\* has an entry for exactly the completed challenges.
C25_ExtractedLists ==
  Ran
  => LET r == report[1]
     IN /\ Elems(r.completed) \cap Elems(r.failed) = {}
        /\ NoRepeat(r.completed)
        /\ NoRepeat(r.failed)
        /\ Elems(files.master) \subseteq Elems(r.completed) \cup Elems(r.failed)
        /\ Elems(r.completed) = ReportedSolved
        /\ Elems(DictKeys(r.costs)) = Elems(r.completed)
        /\ NoRepeat(DictKeys(r.costs))
\* the second source upgrades a challenge that the first one had as failed,
\* and a master challenge that no source knows is padded
C25_Witness ==
  /\ Ran
  /\ \E n \in ResultNames :
       /\ \E i \in DOMAIN files.jupyter : files.jupyter[i].name = n
       /\ n \notin {files.jupyter[i].name : i \in {k \in DOMAIN files.jupyter : files.jupyter[k].success}}
       /\ \E i \in DOMAIN files.finished :
            files.finished[i].name = n /\ files.finished[i].status = "SOLVED"
       /\ IsInList(report[1].completed, n)
  /\ IsInList(files.master, "2019q-cry-count_on_me")
  /\ IsInList(report[1].failed, "2019q-cry-count_on_me")

(* Recording a run *)
\* the priority of the statuses
Priority(out) ==
  IF "keyerror" \in out THEN "FAILED - KEY_ERROR"
  ELSE IF "traceback" \in out THEN "FAILED - FAILED TO RUN"
  ELSE IF "challenge solved" \in out THEN "SOLVED"
  ELSE "NOT_SOLVED"
TextsBy(p) == {i \in DOMAIN finished_file : finished_file[i].by = p /\ ~finished_file[i].end}
EndsBy(p) == {i \in DOMAIN finished_file : finished_file[i].by = p /\ finished_file[i].end}

\* C26: append_to_finished writes exactly one line per call, its status is
\* KEY_ERROR before FAILED TO RUN before SOLVED before NOT_SOLVED (an error
\* marker overrides a solved marker), and the lines of concurrent runners
\* never interleave within a line.
C26_OneWholeLinePerCall ==
  /\ \A i \in DOMAIN finished_file :
       LET x == finished_file[i]
       IN /\ x.name = challenge_name[x.by][1]
          /\ x.status = Priority(output[x.by])
          /\ x.end => i > 1 /\ ~finished_file[i - 1].end /\ finished_file[i - 1].by = x.by
          /\ ~x.end /\ i < Len(finished_file)
               => finished_file[i + 1].end /\ finished_file[i + 1].by = x.by
  /\ \A p \in Procs :
       /\ pc[p] = "remove" => Cardinality(TextsBy(p)) = 1 /\ Cardinality(EndsBy(p)) = 1
       /\ pc[p] \in {"append", "appending"} => TextsBy(p) = {} /\ EndsBy(p) = {}
\* two runners have recorded their runs, one of them with both an error
\* marker and the solved marker in its output
C26_Witness ==
  /\ \A p \in Procs : pc[p] = "remove"
  /\ \E p, q \in Procs :
       /\ p # q
       /\ {"keyerror", "challenge solved"} \subseteq output[p]
       /\ \E i \in TextsBy(p) : finished_file[i].status = "FAILED - KEY_ERROR"
       /\ output[q] = {"traceback", "challenge solved"}
       /\ \E i \in TextsBy(q) : finished_file[i].status = "FAILED - FAILED TO RUN"

(* Validating twice *)
\* the last call of parse_tool_arguments returned (False, ToolResult) for an
\* unknown tool, a missing required parameter or a failed number coercion
ReportedInvalid ==
  ret.status = "error" /\ ret.res.error.kind \in {"not_found", "missing", "type"}

\* C27: a failed validation is stable: after parse_tool_arguments has
\* returned (False, ToolResult) for a ToolCall, a further call on the same
\* ToolCall returns (False, ToolResult) again.
C27_FailureIsStable == [][ReportedInvalid => ret'.status = "error"]_vars

\* C28: parse_tool_arguments changes only parsed_arguments: name, id and raw
\* arguments of the ToolCall are after the call what they were before it,
\* also for raw arguments that are a mapping with extra keys or with number
\* parameters given as strings.
C28_OnlyParsedArgumentsChange ==
  [][n_parse' = n_parse + 1
       => /\ tool_call'.name = tool_call.name
          /\ tool_call'.id = tool_call.id
          /\ tool_call'.arguments = tool_call.arguments]_vars

(* Runners that stop *)
\* no runner has a step left: each has left its loop or is stopped
Quiescent == \A p \in Procs : pc[p] \in {"done", "stopped"}

\* C29: with at least one runner that keeps running, every challenge first
\* listed in the input file is eventually recorded in the finished file and
\* removed from the input file, also when a runner stops between claiming
\* and recording or when get_next_challenge hits a read error.  In the form
\* of a finite run: when no runner has a step left, every listed challenge
\* is recorded and removed.
C29_AllRecordedAtTheEnd ==
  Quiescent
  => \A i \in DOMAIN listed :
       InFinished(listed[i].name) /\ ~InInput(listed[i].name)

====
